---- MODULE Spec2Model ----
(***************************************************************************)
(* A model of crypto/store/store_lib.c: the OSSL_STORE context API (open,  *)
(* ctrl, load, error, eof, close, the PEM BIO attach/detach pair) and the  *)
(* OSSL_STORE_INFO tagged union (constructors, accessors, free).           *)
(*                                                                         *)
(* The specifications of the module: Spec drives the store context API    *)
(* against stub loaders, SpecOpen the scheme dispatch of OSSL_STORE_open,  *)
(* SpecLoad the passes of OSSL_STORE_load under fairness, SpecTwo the      *)
(* store context API with two contexts alive at once, and SpecInfo the     *)
(* OSSL_STORE_INFO API against a small heap of payloads.                   *)
(***************************************************************************)
EXTENDS Integers, Sequences, FiniteSets, TLC

VARIABLES ctxs,      \* OSSL_STORE_CTX slots
          sessions,  \* OSSL_STORE_LOADER_CTX slots of the stub loaders
          returned,  \* history: what OSSL_STORE_load returned, per context
          filtered,  \* history: what the callback was handed, per context
          bio,       \* the BIO the caller has at hand for
                     \* ossl_store_attach_pem_bio: open, or attached
          loading,   \* the context whose OSSL_STORE_load is at label again
          call,      \* the last store call: inputs, loader calls made, result
          capacity,  \* how many OSSL_STORE_CTX the allocator can hold at once
          infos,     \* OSSL_STORE_INFO slots
          heap,      \* payload cells: strings, BUF_MEMs, refcounted handles
          icall      \* the last OSSL_STORE_INFO call

vars == <<ctxs, sessions, returned, filtered, bio, loading, call, capacity,
          infos, heap, icall>>
storeVars ==
    <<ctxs, sessions, returned, filtered, bio, loading, call, capacity>>
infoVars == <<infos, heap, icall>>

-----------------------------------------------------------------------------
(* Bounds *)

\* loader->load calls recorded over all sessions of a run
MaxLoads == 5

\* the same, over the sessions of a run that holds two contexts at once
MaxLoadsTwo == 2

\* the reference count up to which the duplicating accessors are called
MaxRefs == 3

\* heap cells left for OPENSSL_strdup
MaxDup == 1

-----------------------------------------------------------------------------
(* C strings are sequences of one-character strings *)

NULL == 0

Min(a, b) == IF a < b THEN a ELSE b

Rep(c, n) == [i \in 1..n |-> c]

\* sizeof(scheme_copy)
SchemeCopySize == 256

Str_file == <<"f", "i", "l", "e">>
Str_s == <<"s">>
Str_e == <<"e">>
Str_long == Rep("a", SchemeCopySize - 1)

\* OPENSSL_strlcpy(dst, src, size): at most size - 1 characters are copied
OPENSSL_strlcpy(src, size) == SubSeq(src, 1, Min(Len(src), size - 1))

\* strchr(s, c): the index of the first c in s, 0 (NULL) when there is none
strchr(s, c) ==
    IF \E i \in 1..Len(s) : s[i] = c
    THEN CHOOSE i \in 1..Len(s) : s[i] = c /\ \A j \in 1..(i - 1) : s[j] # c
    ELSE NULL

\* lines 39-45: the scheme OSSL_STORE_open looks up for uri
SchemeDefault == Str_file

SchemeOf(uri) ==
    LET scheme_copy == OPENSSL_strlcpy(uri, SchemeCopySize)
        p == strchr(scheme_copy, ":")
    IN  IF p # NULL THEN SubSeq(scheme_copy, 1, p - 1) ELSE SchemeDefault

\* The URIs the caller opens, by name, and the text of each
URIs == {"file:p", "p", "file", "s:p", "e:p", "n:f", "a254:x", "a255:x",
         "file:p256", "p256"}

\* The URIs opened where the dispatch is not what is looked at
FewURIs == {"file:p", "s:p", "n:f"}

UriText(u) ==
    CASE u = "file:p" -> Str_file \o <<":", "p">>
      [] u = "p" -> <<"p">>
      [] u = "file" -> Str_file
      [] u = "s:p" -> Str_s \o <<":", "p">>
      [] u = "e:p" -> Str_e \o <<":", "p">>
      [] u = "n:f" -> <<"n", ":", "f">>
      [] u = "a254:x" -> Rep("a", SchemeCopySize - 2) \o <<":", "x">>
      [] u = "a255:x" -> Str_long \o <<":", "x">>
      [] u = "file:p256" -> Str_file \o <<":">> \o Rep("p", SchemeCopySize)
      [] u = "p256" -> Rep("p", SchemeCopySize)

\* The scheme OSSL_STORE_open computes, per URI (evaluated once)
SchemeTable == [u \in URIs |-> SchemeOf(UriText(u))]

-----------------------------------------------------------------------------
(* The loader registry and the stub loaders *)

NoLoader == "NULL"

\* ossl_store_get0_loader_int(scheme): the registry's lookup
ossl_store_get0_loader_int(scheme) ==
    IF scheme = Str_file THEN "file_loader"
    ELSE IF scheme = Str_s THEN "s_loader"
    ELSE IF scheme = Str_e THEN "e_loader"
    ELSE NoLoader

\* line 47: the loader OSSL_STORE_open finds, per URI (evaluated once)
LoaderTable == [u \in URIs |-> ossl_store_get0_loader_int(SchemeTable[u])]

\* loader->ctrl is optional: the file loader has none
HasCtrl(loader) == loader = "s_loader"

\* The loader registered under "e" has a sequence without end: its load
\* yields an object at every call. What it produced is not recorded.
Endless(loader) == loader = "e_loader"

CtxIds == {1, 2}
SessIds == {1, 2, 3}

Kinds == {"Name", "Cert"}
NoInfo == "NULL"
\* what a loader's load call can yield besides an object
Sentinels == {"EOF", "ERR"}

FreeSession ==
    [state |-> "free", loader |-> NoLoader, produced |-> <<>>,
     eof |-> FALSE, error |-> FALSE, bio |-> FALSE]

FreeCtx ==
    [alive |-> FALSE, loader |-> NoLoader, loader_ctx |-> NULL,
     ui_method |-> "NULL", post_process |-> "NULL"]

\* The session a loader's open allocates
NewSessionId(ss) == CHOOSE s \in SessIds :
    ss[s].state = "free" /\ \A t \in SessIds : ss[t].state = "free" => s <= t

\* loader->open(loader, uri, ui_method, ui_data) yielding a session
loader_open(ss, loader) ==
    [ss EXCEPT ![NewSessionId(ss)] =
        [FreeSession EXCEPT !.state = "open", !.loader = loader]]

\* ossl_store_file_attach_pem_bio_int(bp) yielding a session bound to bp
ossl_store_file_attach_pem_bio_int(ss) ==
    [ss EXCEPT ![NewSessionId(ss)] =
        [FreeSession EXCEPT !.state = "open", !.loader = "file_loader",
                            !.bio = TRUE]]

\* loader->close(loader_ctx): the session is torn down
loader_close(ss, s) == [ss EXCEPT ![s] = FreeSession]

\* loader->load(loader_ctx, ui_method, ui_data): out is an object kind or a
\* sentinel; the session records what it produced
loader_load(ss, s, out) ==
    [ss EXCEPT ![s].produced = IF ss[s].eof \/ Endless(ss[s].loader) THEN @
                               ELSE Append(@, out),
               ![s].eof = @ \/ out = "EOF",
               ![s].error = @ \/ out = "ERR"]

\* what the loader's load call returns to OSSL_STORE_load
LoadValue(out) == IF out \in Sentinels THEN NoInfo ELSE out

TotalLoads == LET RECURSIVE Sum(_)
                  Sum(S) == IF S = {} THEN 0
                            ELSE LET s == CHOOSE x \in S : TRUE
                                 IN Len(sessions[s].produced) + Sum(S \ {s})
              IN Sum(SessIds)

\* The outputs the stub loader may produce next on session s
LoadBudget == IF capacity > 1 THEN MaxLoadsTwo ELSE MaxLoads

LoadOutputs(s) ==
    IF Endless(sessions[s].loader) THEN Kinds
    ELSE IF sessions[s].eof THEN {"EOF"}
    ELSE IF TotalLoads >= LoadBudget THEN {}
    ELSE IF TotalLoads = LoadBudget - 1 THEN Sentinels
    ELSE Kinds \cup Sentinels

-----------------------------------------------------------------------------
(* Post-process callbacks: post_process(v, post_process_data) *)

Filters == {"NULL", "reject_name", "reject_all", "name_to_cert"}

post_process(f, v) ==
    CASE f = "reject_name" -> IF v = "Name" THEN NoInfo ELSE v
      [] f = "reject_all" -> NoInfo
      [] f = "name_to_cert" -> IF v = "Name" THEN "Cert" ELSE v
      [] OTHER -> v

-----------------------------------------------------------------------------
(* The last store call *)

NoCall ==
    [op |-> "none", uri |-> "", ctx |-> NULL, loader |-> NoLoader,
     session |-> NULL, open_arg |-> <<>>, opens |-> 0, closes |-> 0,
     detaches |-> 0, ctrls |-> 0, loads |-> 0, filters |-> 0,
     ctx_frees |-> 0, alloc_ok |-> TRUE, loader_ret |-> 0, ret |-> 0,
     v |-> NoInfo, cmd |-> 0, ctrl_cmd |-> 0, out |-> "none",
     bio_frees |-> 0]

FreeCtxId == CHOOSE c \in CtxIds :
    ~ctxs[c].alive /\ \A d \in CtxIds : ~ctxs[d].alive => c <= d

\* OPENSSL_zalloc(sizeof(*ctx)) can succeed only while memory is left
HasFreeCtx == Cardinality({c \in CtxIds : ctxs[c].alive}) < capacity

-----------------------------------------------------------------------------
(* OSSL_STORE_open, lines 29-73 *)

\* line 48: the uri handed to loader->open
OpenArgTruncated(uri) == OPENSSL_strlcpy(UriText(uri), SchemeCopySize)
OpenArg(uri) == UriText(uri)

\* lines 63-71: the loader->close calls made at label done
DoneClosesNever(loader_ctx) == 0
DoneCloses(loader_ctx) == IF loader_ctx # NULL THEN 1 ELSE 0

OSSL_STORE_open(uri, ui_method, pp, open_ok, alloc_ok, close_ret) ==
    LET loader == LoaderTable[uri]
        \* line 48: loader->open is called only when a loader was found
        opens == IF loader # NoLoader THEN 1 ELSE 0
        opened == opens = 1 /\ open_ok
        s == IF opened THEN NewSessionId(sessions) ELSE NULL
        \* line 50: OPENSSL_zalloc is reached only with a session
        ctx_ok == opened /\ alloc_ok
        c == IF ctx_ok THEN FreeCtxId ELSE NULL
        \* line 57, or the goto: loader_ctx as it stands at label done
        loader_ctx == IF ctx_ok THEN NULL ELSE s
        closes == DoneCloses(loader_ctx)
        ss1 == IF opened THEN loader_open(sessions, loader) ELSE sessions
        ss2 == IF closes > 0 /\ s # NULL THEN loader_close(ss1, s) ELSE ss1
    IN  /\ loading = NULL
        /\ alloc_ok => HasFreeCtx
        /\ sessions' = ss2
        /\ ctxs' = IF ctx_ok
                   THEN [ctxs EXCEPT ![c] =
                            [alive |-> TRUE, loader |-> loader,
                             loader_ctx |-> s, ui_method |-> ui_method,
                             post_process |-> pp]]
                   ELSE ctxs
        /\ returned' = IF ctx_ok THEN [returned EXCEPT ![c] = <<>>]
                       ELSE returned
        /\ filtered' = IF ctx_ok THEN [filtered EXCEPT ![c] = <<>>]
                       ELSE filtered
        /\ call' = [NoCall EXCEPT !.op = "open", !.uri = uri,
                        !.loader = loader, !.session = s,
                        !.open_arg = IF opens = 1 THEN OpenArg(uri) ELSE <<>>,
                        !.opens = opens,
                        !.alloc_ok = alloc_ok,
                        !.closes = closes,
                        !.loader_ret = IF closes > 0 THEN close_ret ELSE 0,
                        !.ret = c]
        /\ UNCHANGED <<bio, loading, capacity, infoVars>>

-----------------------------------------------------------------------------
(* OSSL_STORE_ctrl, lines 75-86 *)

Cmds == {1, 2}

\* what loader->ctrl can return
CtrlRets == {0, 1, 2}

\* lines 81-82: the loader->ctrl calls made
CtrlCallsAlways(loader) == 1
CtrlCalls(loader) == IF HasCtrl(loader) THEN 1 ELSE 0

\* The stub's ctrl keeps nothing in the session: what it was called with is
\* recorded in the call
OSSL_STORE_ctrl(c, cmd, ctrl_ret) ==
    LET ctx == ctxs[c]
        supported == CtrlCalls(ctx.loader) = 1
    IN  /\ loading = NULL
        /\ ctx.alive
        /\ sessions' = sessions
        /\ call' = [NoCall EXCEPT !.op = "ctrl", !.ctx = c,
                        !.loader = ctx.loader, !.session = ctx.loader_ctx,
                        !.ctrls = IF supported THEN 1 ELSE 0,
                        !.cmd = cmd,
                        !.ctrl_cmd = IF supported THEN cmd ELSE 0,
                        !.loader_ret = IF supported THEN ctrl_ret ELSE 0,
                        !.ret = IF supported THEN ctrl_ret ELSE 0]
        /\ UNCHANGED <<ctxs, returned, filtered, bio, loading, capacity,
                       infoVars>>

-----------------------------------------------------------------------------
(* OSSL_STORE_load, lines 88-107: one pass from label again to the goto or *)
(* the return                                                              *)

\* line 95: whether the callback is applied to what the loader returned
FiltersvAlways(pp, v) == pp # "NULL"
Filtersv(pp, v) == pp # "NULL" /\ v # NoInfo

\* the passes of one call are counted up to MaxLoads + 1
Bump(n) == IF n > MaxLoads THEN n ELSE n + 1

\* lines 102-103: whether the pass ends in goto again
GoesAgainNever(pp, v0, v) == FALSE
GoesAgainOnNull(pp, v0, v) == pp # "NULL" /\ v = NoInfo
GoesAgain(pp, v0, v) == Filtersv(pp, v0) /\ v = NoInfo

OSSL_STORE_load(c, out) ==
    LET ctx == ctxs[c]
        s == ctx.loader_ctx
        v0 == LoadValue(out)
        v == IF Filtersv(ctx.post_process, v0)
             THEN post_process(ctx.post_process, v0) ELSE v0
        again == GoesAgain(ctx.post_process, v0, v)
        entered == loading = NULL
    IN  /\ loading \in {NULL, c}
        /\ ctx.alive
        /\ out \in LoadOutputs(s)
        /\ sessions' = loader_load(sessions, s, out)
        /\ loading' = IF again THEN c ELSE NULL
        /\ returned' = IF again \/ sessions[s].eof \/ Endless(ctx.loader)
                       THEN returned
                       ELSE [returned EXCEPT ![c] = Append(@, v)]
        /\ filtered' = IF Filtersv(ctx.post_process, v0)
                          /\ ~Endless(ctx.loader)
                       THEN [filtered EXCEPT ![c] = Append(@, v0)]
                       ELSE filtered
        /\ call' = [NoCall EXCEPT
                        !.op = IF again THEN "load_again" ELSE "load",
                        !.ctx = c, !.loader = ctx.loader, !.session = s,
                        !.loads = IF entered THEN 1 ELSE Bump(call.loads),
                        !.filters =
                            LET n == IF entered THEN 0 ELSE call.filters
                            IN  IF Filtersv(ctx.post_process, v0)
                                THEN Bump(n) ELSE n,
                        !.out = out,
                        !.v = v]
        /\ UNCHANGED <<ctxs, bio, capacity, infoVars>>

-----------------------------------------------------------------------------
(* OSSL_STORE_error, lines 109-112, and OSSL_STORE_eof, lines 114-117 *)

Bool2Int(b) == IF b THEN 1 ELSE 0

OSSL_STORE_error(c) ==
    LET ctx == ctxs[c]
    IN  /\ loading = NULL
        /\ ctx.alive
        /\ call' = [NoCall EXCEPT !.op = "error", !.ctx = c,
                        !.loader = ctx.loader, !.session = ctx.loader_ctx,
                        !.ret = Bool2Int(sessions[ctx.loader_ctx].error)]
        /\ UNCHANGED <<ctxs, sessions, returned, filtered, bio, loading,
                       capacity, infoVars>>

EofOf(ss, s) == ss[s].eof

OSSL_STORE_eof(c) ==
    LET ctx == ctxs[c]
    IN  /\ loading = NULL
        /\ ctx.alive
        /\ call' = [NoCall EXCEPT !.op = "eof", !.ctx = c,
                        !.loader = ctx.loader, !.session = ctx.loader_ctx,
                        !.ret = Bool2Int(EofOf(sessions, ctx.loader_ctx))]
        /\ UNCHANGED <<ctxs, sessions, returned, filtered, bio, loading,
                       capacity, infoVars>>

-----------------------------------------------------------------------------
(* OSSL_STORE_close, lines 119-125 *)

\* line 123: OPENSSL_free(ctx) does not depend on loader_ret
CloseFreesOnSuccess(loader_ret) == loader_ret # 0
CloseFrees(loader_ret) == TRUE

\* The file loader's close frees the BIO its session is bound to
BioFrees(ss, s) == IF ss[s].bio THEN 1 ELSE 0

\* The BIO the caller has at hand once loader->close ran: in place of a BIO
\* that was freed, a fresh one
BioAfterClose(ss, s) == IF ss[s].bio THEN "open" ELSE bio

OSSL_STORE_close(c, close_ret) ==
    LET ctx == ctxs[c]
        s == ctx.loader_ctx
        loader_ret == close_ret
        frees == CloseFrees(loader_ret)
    IN  /\ loading = NULL
        /\ ctx.alive
        /\ sessions' = loader_close(sessions, s)
        /\ bio' = BioAfterClose(sessions, s)
        /\ ctxs' = IF frees THEN [ctxs EXCEPT ![c] = FreeCtx] ELSE ctxs
        /\ returned' = IF frees THEN [returned EXCEPT ![c] = <<>>]
                       ELSE returned
        /\ filtered' = IF frees THEN [filtered EXCEPT ![c] = <<>>]
                       ELSE filtered
        /\ call' = [NoCall EXCEPT !.op = "close", !.ctx = c,
                        !.loader = ctx.loader, !.session = s,
                        !.closes = 1,
                        !.bio_frees = BioFrees(sessions, s),
                        !.ctx_frees = IF frees THEN 1 ELSE 0,
                        !.loader_ret = loader_ret,
                        !.ret = loader_ret]
        /\ UNCHANGED <<loading, capacity, infoVars>>

-----------------------------------------------------------------------------
(* ossl_store_attach_pem_bio, lines 412-445, and ossl_store_detach_pem_bio, *)
(* lines 447-453                                                            *)

\* lines 436-443: the loader->close calls made at label done
AttachDoneClosesNever(loader_ctx) == 0
AttachDoneCloses(loader_ctx) == IF loader_ctx # NULL THEN 1 ELSE 0

\* line 433: ctx->post_process = NULL
AttachPostProcessSet == "reject_all"
AttachPostProcess == "NULL"

ossl_store_attach_pem_bio(ui_method, attach_ok, alloc_ok, close_ret) ==
    LET loader == ossl_store_get0_loader_int(Str_file)
        attached == loader # NoLoader /\ attach_ok
        s == IF attached THEN NewSessionId(sessions) ELSE NULL
        ctx_ok == attached /\ alloc_ok
        c == IF ctx_ok THEN FreeCtxId ELSE NULL
        loader_ctx == IF ctx_ok THEN NULL ELSE s
        closes == AttachDoneCloses(loader_ctx)
        ss1 == IF attached THEN ossl_store_file_attach_pem_bio_int(sessions)
               ELSE sessions
        ss2 == IF closes > 0 THEN loader_close(ss1, s) ELSE ss1
    IN  /\ loading = NULL
        /\ bio = "open"
        /\ alloc_ok => HasFreeCtx
        /\ sessions' = ss2
        /\ bio' = IF ctx_ok THEN "attached" ELSE bio
        /\ ctxs' = IF ctx_ok
                   THEN [ctxs EXCEPT ![c] =
                            [alive |-> TRUE, loader |-> loader,
                             loader_ctx |-> s, ui_method |-> ui_method,
                             post_process |-> AttachPostProcess]]
                   ELSE ctxs
        /\ returned' = IF ctx_ok THEN [returned EXCEPT ![c] = <<>>]
                       ELSE returned
        /\ filtered' = IF ctx_ok THEN [filtered EXCEPT ![c] = <<>>]
                       ELSE filtered
        /\ call' = [NoCall EXCEPT !.op = "attach", !.loader = loader,
                        !.session = s, !.closes = closes,
                        !.bio_frees = closes,
                        !.alloc_ok = alloc_ok,
                        !.loader_ret = IF closes > 0 THEN close_ret ELSE 0,
                        !.ret = c]
        /\ UNCHANGED <<loading, capacity, infoVars>>

\* ossl_store_file_detach_pem_bio_int(loader_ctx): the session is freed, the
\* BIO it was bound to is left to the caller
ossl_store_file_detach_pem_bio_int(ss, s) == [ss EXCEPT ![s] = FreeSession]

\* line 451: OPENSSL_free(ctx) does not depend on loader_ret
DetachFreesOnSuccess(loader_ret) == loader_ret # 0
DetachFrees(loader_ret) == TRUE

ossl_store_detach_pem_bio(c, detach_ret) ==
    LET ctx == ctxs[c]
        s == ctx.loader_ctx
        loader_ret == detach_ret
        frees == DetachFrees(loader_ret)
    IN  /\ loading = NULL
        /\ ctx.alive
        /\ sessions[s].bio
        /\ sessions' = ossl_store_file_detach_pem_bio_int(sessions, s)
        /\ bio' = "open"
        /\ ctxs' = IF frees THEN [ctxs EXCEPT ![c] = FreeCtx] ELSE ctxs
        /\ returned' = IF frees THEN [returned EXCEPT ![c] = <<>>]
                       ELSE returned
        /\ filtered' = IF frees THEN [filtered EXCEPT ![c] = <<>>]
                       ELSE filtered
        /\ call' = [NoCall EXCEPT !.op = "detach", !.ctx = c,
                        !.loader = ctx.loader, !.session = s,
                        !.detaches = 1,
                        !.ctx_frees = IF frees THEN 1 ELSE 0,
                        !.loader_ret = loader_ret, !.ret = loader_ret]
        /\ UNCHANGED <<loading, capacity, infoVars>>

-----------------------------------------------------------------------------
(* The heap of payloads an OSSL_STORE_INFO can own *)

\* The caller's payloads live in cells 1..3, OPENSSL_strdup allocates above
CallerCells == {1, 2, 3}
Ptrs == 1..(3 + MaxDup)
DupCells == Ptrs \ CallerCells

FreeCell ==
    [ctype |-> "free", refs |-> 0, frees |-> 0, val |-> "", given |-> FALSE,
     attached |-> FALSE, got |-> 0]
StrCell(val) == [FreeCell EXCEPT !.ctype = "str", !.refs = 1, !.val = val]
HandleCell(ctype) == [FreeCell EXCEPT !.ctype = ctype, !.refs = 1]

\* What the caller holds before the first call
Kits == {"strings", "X509", "EVP_PKEY", "X509_CRL", "BUF_MEM"}
HeapOf(kit) ==
    [p \in Ptrs |->
        IF kit = "strings"
        THEN (IF p = 1 THEN StrCell("n") ELSE IF p = 2 THEN StrCell("d")
              ELSE FreeCell)
        ELSE (IF p = 1 THEN HandleCell(kit) ELSE FreeCell)]

\* OPENSSL_free(p) and BUF_MEM_free(p): freeing NULL does nothing
OPENSSL_free(h, p) ==
    IF p = NULL THEN h
    ELSE [h EXCEPT ![p].refs = 0, ![p].frees = @ + 1]

\* X509_free, EVP_PKEY_free, X509_CRL_free: one reference is dropped, the
\* handle is freed with its last reference
handle_free(h, p) ==
    IF p = NULL THEN h
    ELSE IF h[p].refs > 1 THEN [h EXCEPT ![p].refs = @ - 1]
    ELSE [h EXCEPT ![p].refs = 0, ![p].frees = @ + 1]

\* X509_up_ref, EVP_PKEY_up_ref, X509_CRL_up_ref
handle_up_ref(h, p) == [h EXCEPT ![p].refs = @ + 1]

\* OPENSSL_strdup(str): the cell of the copy, NULL when str is NULL or the
\* allocation fails
HasDupCell(h) == \E p \in DupCells : h[p].ctype = "free"
DupCell(h) == CHOOSE p \in DupCells :
    h[p].ctype = "free" /\ \A q \in DupCells : h[q].ctype = "free" => p <= q
OPENSSL_strdup_heap(h, val) == [h EXCEPT ![DupCell(h)] = StrCell(val)]

\* The payloads of a C type the caller can hand over: NULL, or a cell it
\* still owns
Owned(ctype) ==
    {p \in CallerCells : heap[p].ctype = ctype /\ ~heap[p].given
                         /\ heap[p].frees = 0}
Payloads(ctype) == {NULL} \cup Owned(ctype)

Give(h, p) == IF p = NULL THEN h ELSE [h EXCEPT ![p].given = TRUE]

RefsOf(h) == [p \in Ptrs |-> h[p].refs]
FreesOf(h) == [p \in Ptrs |-> h[p].frees]

-----------------------------------------------------------------------------
(* OSSL_STORE_INFO *)

InfoIds == {1}

HandleTypes == {"PARAMS", "PKEY", "CERT", "CRL"}

\* struct ossl_store_info_st: the tag and the union, whose members share two
\* pointer slots: m0 is _.data, _.params, _.pkey, _.x509, _.crl, _.name.name
\* and _.embedded.blob, m1 is _.name.desc and _.embedded.pem_name
NoInfoObj == [alive |-> FALSE, type |-> "none", m0 |-> NULL, m1 |-> NULL]

NoICall ==
    [op |-> "none", type |-> "none", info |-> NULL, arg |-> NULL,
     ret |-> NULL, ret_type |-> "none", tag |-> "none", errs |-> <<>>,
     refs0 |-> RefsOf(heap),
     frees0 |-> FreesOf(heap), fault |-> "none", m0 |-> NULL, m1 |-> NULL,
     alloc_ok |-> TRUE]

InfoReady == icall.fault = "none"

\* lines 135-145: store_info_new(type, data), info being the free slot
store_info_new(i, type, data) ==
    [infos EXCEPT ![i] = [alive |-> TRUE, type |-> type, m0 |-> data,
                          m1 |-> NULL]]

\* OPENSSL_zalloc(sizeof(*info)) can succeed only while memory is left
FreeInfoId == CHOOSE i \in InfoIds : ~infos[i].alive
HasFreeInfo == \E i \in InfoIds : ~infos[i].alive

\* lines 147-161
OSSL_STORE_INFO_new_NAME(name, alloc_ok) ==
    /\ InfoReady
    /\ alloc_ok => HasFreeInfo
    /\ infos' = IF alloc_ok
                THEN [store_info_new(FreeInfoId, "NAME", NULL)
                         EXCEPT ![FreeInfoId].m0 = name,
                                ![FreeInfoId].m1 = NULL]
                ELSE infos
    /\ heap' = IF alloc_ok THEN Give(heap, name) ELSE heap
    /\ icall' = [NoICall EXCEPT !.op = "new", !.type = "NAME", !.arg = name,
                     !.alloc_ok = alloc_ok,
                     !.ret = IF alloc_ok THEN FreeInfoId ELSE NULL,
                     !.errs = IF alloc_ok THEN <<>>
                              ELSE <<"MALLOC_FAILURE">>]
    /\ UNCHANGED storeVars

\* lines 175-213: OSSL_STORE_INFO_new_PARAMS, _new_PKEY, _new_CERT, _new_CRL
NewHandleInfoRejectsNull(type, data, alloc_ok) ==
    LET ok == alloc_ok /\ data # NULL
    IN  /\ InfoReady
        /\ alloc_ok => HasFreeInfo
        /\ infos' = IF ok THEN store_info_new(FreeInfoId, type, data)
                    ELSE infos
        /\ heap' = IF ok THEN Give(heap, data) ELSE heap
        /\ icall' = [NoICall EXCEPT !.op = "new", !.type = type,
                         !.arg = data, !.alloc_ok = alloc_ok,
                         !.ret = IF ok THEN FreeInfoId ELSE NULL,
                         !.errs = IF ok THEN <<>> ELSE <<"MALLOC_FAILURE">>]
        /\ UNCHANGED storeVars
NewHandleInfo(type, data, alloc_ok) ==
    /\ InfoReady
    /\ alloc_ok => HasFreeInfo
    /\ infos' = IF alloc_ok THEN store_info_new(FreeInfoId, type, data)
                ELSE infos
    /\ heap' = IF alloc_ok THEN Give(heap, data) ELSE heap
    /\ icall' = [NoICall EXCEPT !.op = "new", !.type = type, !.arg = data,
                     !.alloc_ok = alloc_ok,
                     !.ret = IF alloc_ok THEN FreeInfoId ELSE NULL,
                     !.errs = IF alloc_ok THEN <<>>
                              ELSE <<"MALLOC_FAILURE">>]
    /\ UNCHANGED storeVars

OSSL_STORE_INFO_new_PARAMS(params, alloc_ok) ==
    NewHandleInfo("PARAMS", params, alloc_ok)
OSSL_STORE_INFO_new_PKEY(pkey, alloc_ok) ==
    NewHandleInfo("PKEY", pkey, alloc_ok)
OSSL_STORE_INFO_new_CERT(x509, alloc_ok) ==
    NewHandleInfo("CERT", x509, alloc_ok)
OSSL_STORE_INFO_new_CRL(crl, alloc_ok) ==
    NewHandleInfo("CRL", crl, alloc_ok)

\* line 165: the tag check of set0_NAME_description
Set0AppliesAlways(info) == TRUE
Set0Applies(info) == info.type = "NAME"

\* lines 163-174
OSSL_STORE_INFO_set0_NAME_description(i, desc) ==
    LET is_name == Set0Applies(infos[i])
    IN  /\ InfoReady
        /\ infos[i].alive
        /\ infos' = IF is_name THEN [infos EXCEPT ![i].m1 = desc] ELSE infos
        /\ heap' = IF is_name /\ desc # NULL
                   THEN [heap EXCEPT ![desc].given = TRUE,
                                     ![desc].attached = TRUE]
                   ELSE heap
        /\ icall' = [NoICall EXCEPT !.op = "set0_NAME_description",
                         !.type = "NAME", !.info = i, !.arg = desc,
                         !.tag = infos[i].type,
                         !.ret = IF is_name THEN 1 ELSE 0,
                         !.errs = IF is_name THEN <<>>
                                  ELSE <<"PASSED_INVALID_ARGUMENT">>]
        /\ UNCHANGED storeVars

\* lines 218-221
OSSL_STORE_INFO_get_type(i) ==
    /\ InfoReady
    /\ infos[i].alive
    /\ icall' = [NoICall EXCEPT !.op = "get_type", !.info = i,
                     !.tag = infos[i].type, !.ret_type = infos[i].type]
    /\ UNCHANGED <<infos, heap, storeVars>>

\* lines 223-228
OSSL_STORE_INFO_get0_NAME(i) ==
    /\ InfoReady
    /\ infos[i].alive
    /\ icall' = [NoICall EXCEPT !.op = "get0", !.type = "NAME", !.info = i,
                     !.tag = infos[i].type,
                     !.ret = IF infos[i].type = "NAME" THEN infos[i].m0
                             ELSE NULL]
    /\ UNCHANGED <<infos, heap, storeVars>>

\* lines 230-243 and 252-266: OPENSSL_strdup(src) under the tag check, src
\* being NULL or a cell; dflt is what is copied in place of a NULL src
Get1String(op, i, src, dflt, dup_ok) ==
    LET is_name == infos[i].type = "NAME"
        has_src == src # NULL \/ dflt # "NULL"
        copied == is_name /\ has_src /\ dup_ok
        val == IF src # NULL THEN heap[src].val ELSE dflt
    IN  /\ InfoReady
        /\ infos[i].alive
        /\ dup_ok => HasDupCell(heap)
        /\ heap' = IF copied THEN OPENSSL_strdup_heap(heap, val) ELSE heap
        /\ icall' = [NoICall EXCEPT !.op = op, !.type = "NAME", !.info = i,
                         !.tag = infos[i].type,
                         !.alloc_ok = dup_ok,
                         !.ret = IF copied THEN DupCell(heap) ELSE NULL,
                         !.errs = IF ~is_name THEN <<"NOT_A_NAME">>
                                  ELSE IF copied THEN <<>>
                                  ELSE <<"MALLOC_FAILURE">>]
        /\ UNCHANGED <<infos, storeVars>>

OSSL_STORE_INFO_get1_NAME(i, dup_ok) ==
    Get1String("get1", i, infos[i].m0, "NULL", dup_ok)

\* lines 245-250
OSSL_STORE_INFO_get0_NAME_description(i) ==
    /\ InfoReady
    /\ infos[i].alive
    /\ icall' = [NoICall EXCEPT !.op = "get0_description", !.type = "NAME",
                     !.info = i, !.tag = infos[i].type,
                     !.ret = IF infos[i].type = "NAME" THEN infos[i].m1
                             ELSE NULL]
    /\ UNCHANGED <<infos, heap, storeVars>>

\* lines 252-266
Get1DescriptionNoDefault(i, dup_ok) ==
    Get1String("get1_description", i, infos[i].m1, "NULL", dup_ok)
OSSL_STORE_INFO_get1_NAME_description(i, dup_ok) ==
    Get1String("get1_description", i, infos[i].m1, "", dup_ok)

\* The reason each duplicating accessor raises on another tag
NotA(type) ==
    CASE type = "PARAMS" -> "NOT_PARAMETERS"
      [] type = "PKEY" -> "NOT_A_KEY"
      [] type = "CERT" -> "NOT_A_CERTIFICATE"
      [] type = "CRL" -> "NOT_A_CRL"
      [] OTHER -> "NOT_A_NAME"

\* lines 268-273, 286-291, 304-309, 322-327: what get0 returns
Get0Ret(info, type) == IF info.type = type THEN info.m0 ELSE NULL

Get0Of(i, type) ==
    /\ InfoReady
    /\ infos[i].alive
    /\ icall' = [NoICall EXCEPT !.op = "get0", !.type = type, !.info = i,
                     !.tag = infos[i].type,
                     !.ret = Get0Ret(infos[i], type)]
    /\ UNCHANGED <<infos, heap, storeVars>>

OSSL_STORE_INFO_get0_PARAMS(i) == Get0Of(i, "PARAMS")
OSSL_STORE_INFO_get0_PKEY(i) == Get0Of(i, "PKEY")
OSSL_STORE_INFO_get0_CERT(i) == Get0Of(i, "CERT")
OSSL_STORE_INFO_get0_CRL(i) == Get0Of(i, "CRL")

\* lines 275-284, 293-302, 311-320, 329-338: the heap after get1, its up_ref
\* being called on the member under the tag check
Get1HeapNoUpRef(h, info, type) == h
Get1Heap(h, info, type) ==
    IF info.type = type /\ info.m0 # NULL THEN handle_up_ref(h, info.m0)
    ELSE h

\* history: the handles handed out by get1, counted per cell
NoteGet1(h, info, type) ==
    IF info.type = type /\ info.m0 # NULL THEN [h EXCEPT ![info.m0].got = @ + 1]
    ELSE h

\* the errors get1 raises
Get1ErrsSilent(info, type) == <<>>
Get1Errs(info, type) == IF info.type = type THEN <<>> ELSE <<NotA(type)>>

\* up_ref reads the reference count through the member: a NULL member under
\* the matching tag is a NULL dereference
Get1Of(i, type) ==
    LET info == infos[i]
        matches == info.type = type
    IN  /\ InfoReady
        /\ info.alive
        /\ (matches /\ info.m0 # NULL) => heap[info.m0].refs < MaxRefs
        /\ heap' = NoteGet1(Get1Heap(heap, info, type), info, type)
        /\ icall' = [NoICall EXCEPT !.op = "get1", !.type = type, !.info = i,
                         !.tag = info.type,
                         !.ret = IF matches THEN info.m0 ELSE NULL,
                         !.errs = Get1Errs(info, type),
                         !.fault = IF matches /\ info.m0 = NULL
                                   THEN "null_deref" ELSE "none"]
        /\ UNCHANGED <<infos, storeVars>>

OSSL_STORE_INFO_get1_PARAMS(i) == Get1Of(i, "PARAMS")
OSSL_STORE_INFO_get1_PKEY(i) == Get1Of(i, "PKEY")
OSSL_STORE_INFO_get1_CERT(i) == Get1Of(i, "CERT")
OSSL_STORE_INFO_get1_CRL(i) == Get1Of(i, "CRL")

\* lines 346-367: the payload released by tag
FreePayloadOutright(h, info) ==
    IF info.type \in HandleTypes THEN OPENSSL_free(h, info.m0)
    ELSE OPENSSL_free(OPENSSL_free(h, info.m0), info.m1)
FreePayload(h, info) ==
    CASE info.type = "EMBEDDED" -> OPENSSL_free(OPENSSL_free(h, info.m0),
                                                 info.m1)
      [] info.type = "NAME" -> OPENSSL_free(OPENSSL_free(h, info.m0), info.m1)
      [] info.type \in HandleTypes -> handle_free(h, info.m0)
      [] OTHER -> h

\* lines 343-370: OSSL_STORE_INFO_free(info), info NULL or a live object
OSSL_STORE_INFO_free(i) ==
    /\ InfoReady
    /\ i # NULL => infos[i].alive
    /\ heap' = IF i # NULL THEN FreePayload(heap, infos[i]) ELSE heap
    /\ infos' = IF i # NULL THEN [infos EXCEPT ![i] = NoInfoObj] ELSE infos
    /\ icall' = [NoICall EXCEPT !.op = "free", !.info = i,
                     !.tag = IF i # NULL THEN infos[i].type ELSE "none",
                     !.m0 = IF i # NULL THEN infos[i].m0 ELSE NULL,
                     !.m1 = IF i # NULL THEN infos[i].m1 ELSE NULL]
    /\ UNCHANGED storeVars

\* lines 373-396: new_pem_name is "NULL" for a NULL pointer
PemNames == {"NULL", "PKCS8"}

ossl_store_info_new_EMBEDDED(new_pem_name, embedded, alloc_ok, dup_ok) ==
    LET i == FreeInfoId
        wants_name == new_pem_name # "NULL"
        pem_name == IF wants_name /\ dup_ok THEN DupCell(heap) ELSE NULL
        h1 == IF wants_name /\ dup_ok
              THEN OPENSSL_strdup_heap(heap, new_pem_name) ELSE heap
        info == [alive |-> TRUE, type |-> "EMBEDDED", m0 |-> embedded,
                 m1 |-> pem_name]
        \* line 388
        dup_failed == wants_name /\ pem_name = NULL
    IN  /\ InfoReady
        /\ alloc_ok => HasFreeInfo
        /\ dup_ok => HasDupCell(heap)
        /\ infos' = IF alloc_ok /\ ~dup_failed
                    THEN [infos EXCEPT ![i] = info] ELSE infos
        /\ heap' = IF ~alloc_ok THEN heap
                   ELSE IF dup_failed THEN FreePayload(h1, info)
                   ELSE Give(h1, embedded)
        /\ icall' = [NoICall EXCEPT !.op = "new", !.type = "EMBEDDED",
                         !.arg = embedded,
                         !.ret = IF alloc_ok /\ ~dup_failed THEN i ELSE NULL,
                         !.errs = IF alloc_ok /\ ~dup_failed THEN <<>>
                                  ELSE <<"MALLOC_FAILURE">>]
        /\ UNCHANGED storeVars

\* lines 398-403
ossl_store_info_get0_EMBEDDED_buffer(i) ==
    /\ InfoReady
    /\ infos[i].alive
    /\ icall' = [NoICall EXCEPT !.op = "get0", !.type = "EMBEDDED",
                     !.info = i, !.tag = infos[i].type,
                     !.ret = IF infos[i].type = "EMBEDDED" THEN infos[i].m0
                             ELSE NULL]
    /\ UNCHANGED <<infos, heap, storeVars>>

\* lines 405-410
ossl_store_info_get0_EMBEDDED_pem_name(i) ==
    /\ InfoReady
    /\ infos[i].alive
    /\ icall' = [NoICall EXCEPT !.op = "get0_pem_name", !.type = "EMBEDDED",
                     !.info = i, !.tag = infos[i].type,
                     !.ret = IF infos[i].type = "EMBEDDED" THEN infos[i].m1
                             ELSE NULL]
    /\ UNCHANGED <<infos, heap, storeVars>>

-----------------------------------------------------------------------------
InitStore ==
    /\ ctxs = [c \in CtxIds |-> FreeCtx]
    /\ sessions = [s \in SessIds |-> FreeSession]
    /\ returned = [c \in CtxIds |-> <<>>]
    /\ filtered = [c \in CtxIds |-> <<>>]
    /\ bio = "open"
    /\ loading = NULL
    /\ call = NoCall
    /\ capacity = 1

InitInfoOf(kit) ==
    /\ infos = [i \in InfoIds |-> NoInfoObj]
    /\ heap = HeapOf(kit)
    /\ icall = [op |-> "none", type |-> "none", info |-> NULL, arg |-> NULL,
                ret |-> NULL, ret_type |-> "none", tag |-> "none",
                errs |-> <<>>, refs0 |-> RefsOf(HeapOf(kit)),
                frees0 |-> FreesOf(HeapOf(kit)), fault |-> "none",
                m0 |-> NULL, m1 |-> NULL, alloc_ok |-> TRUE]

Init == InitStore /\ InitInfoOf("X509")

\* The inputs a call reads: the callback is stored only in a context, the
\* status of loader->close is produced only when close is called
PostProcessRead(F, open_ok, alloc_ok) ==
    IF open_ok /\ alloc_ok THEN F ELSE {"NULL"}
CloseRetRead(open_ok, alloc_ok) ==
    IF open_ok /\ ~alloc_ok THEN {0, 1} ELSE {0}

OpenWith(U, F) ==
    \E uri \in U, open_ok \in BOOLEAN, alloc_ok \in BOOLEAN :
        \E pp \in PostProcessRead(F, open_ok, alloc_ok),
           close_ret \in CloseRetRead(open_ok, alloc_ok) :
            OSSL_STORE_open(uri, "ui", pp, open_ok, alloc_ok, close_ret)

OpenOf(U) == OpenWith(U, Filters)

Open == OpenOf(FewURIs)

OpenAny == OpenOf(URIs)

Ctrl == \E c \in CtxIds, cmd \in Cmds, ctrl_ret \in CtrlRets :
    OSSL_STORE_ctrl(c, cmd, ctrl_ret)

Load == \E c \in CtxIds, out \in Kinds \cup Sentinels : OSSL_STORE_load(c, out)

Error == \E c \in CtxIds : OSSL_STORE_error(c)

Eof == \E c \in CtxIds : OSSL_STORE_eof(c)

Close == \E c \in CtxIds, close_ret \in {0, 1} : OSSL_STORE_close(c, close_ret)

Attach ==
    \E attach_ok \in BOOLEAN, alloc_ok \in BOOLEAN :
        \E close_ret \in CloseRetRead(attach_ok, alloc_ok) :
            ossl_store_attach_pem_bio("ui", attach_ok, alloc_ok, close_ret)

Detach == \E c \in CtxIds, detach_ret \in {0, 1} :
    ossl_store_detach_pem_bio(c, detach_ret)

Next == Open \/ Ctrl \/ Load \/ Error \/ Eof \/ Close \/ Attach \/ Detach

Spec == Init /\ [][Next]_vars

\* The scheme dispatch of OSSL_STORE_open alone, over every URI
NextOpen == OpenAny \/ Close

SpecOpen == Init /\ [][NextOpen]_vars

\* OSSL_STORE_load alone, on a loader whose sequence ends and on one whose
\* sequence does not; a call of OSSL_STORE_load that is under way goes on
LoadURIs == {"s:p", "e:p"}

OpenToLoad == OpenOf(LoadURIs)

LoadPass == loading # NULL /\ Load

NextLoad == OpenToLoad \/ Load

SpecLoad == Init /\ [][NextLoad]_vars /\ WF_vars(LoadPass)

\* The store context API with room for two contexts at once, on shorter
\* loader sequences
InitTwo ==
    /\ ctxs = [c \in CtxIds |-> FreeCtx]
    /\ sessions = [s \in SessIds |-> FreeSession]
    /\ returned = [c \in CtxIds |-> <<>>]
    /\ filtered = [c \in CtxIds |-> <<>>]
    /\ bio = "open"
    /\ loading = NULL
    /\ call = NoCall
    /\ capacity = 2
    /\ InitInfoOf("X509")

TwoURIs == {"s:p", "n:f"}
TwoFilters == {"NULL", "reject_all"}

OpenTwo == OpenWith(TwoURIs, TwoFilters)

NextTwo ==
    OpenTwo \/ Ctrl \/ Load \/ Error \/ Eof \/ Close \/ Attach \/ Detach

SpecTwo == InitTwo /\ [][NextTwo]_vars

\* The OSSL_STORE_INFO API, over each kit of caller payloads
InitInfo == InitStore /\ \E kit \in Kits : InitInfoOf(kit)

NewName == \E name \in Payloads("str"), alloc_ok \in BOOLEAN :
    OSSL_STORE_INFO_new_NAME(name, alloc_ok)
NewParams == \E params \in Payloads("EVP_PKEY"), alloc_ok \in BOOLEAN :
    OSSL_STORE_INFO_new_PARAMS(params, alloc_ok)
NewPkey == \E pkey \in Payloads("EVP_PKEY"), alloc_ok \in BOOLEAN :
    OSSL_STORE_INFO_new_PKEY(pkey, alloc_ok)
NewCert == \E x509 \in Payloads("X509"), alloc_ok \in BOOLEAN :
    OSSL_STORE_INFO_new_CERT(x509, alloc_ok)
NewCrl == \E crl \in Payloads("X509_CRL"), alloc_ok \in BOOLEAN :
    OSSL_STORE_INFO_new_CRL(crl, alloc_ok)
NewEmbedded ==
    \E new_pem_name \in PemNames, embedded \in Payloads("BUF_MEM"),
       alloc_ok \in BOOLEAN, dup_ok \in BOOLEAN :
        ossl_store_info_new_EMBEDDED(new_pem_name, embedded, alloc_ok, dup_ok)
SetDescription == \E i \in InfoIds, desc \in Payloads("str") :
    OSSL_STORE_INFO_set0_NAME_description(i, desc)
GetType == \E i \in InfoIds : OSSL_STORE_INFO_get_type(i)
Get0Name == \E i \in InfoIds : OSSL_STORE_INFO_get0_NAME(i)
Get1Name == \E i \in InfoIds, dup_ok \in BOOLEAN :
    OSSL_STORE_INFO_get1_NAME(i, dup_ok)
Get0Description == \E i \in InfoIds : OSSL_STORE_INFO_get0_NAME_description(i)
Get1Description == \E i \in InfoIds, dup_ok \in BOOLEAN :
    OSSL_STORE_INFO_get1_NAME_description(i, dup_ok)
Get0Params == \E i \in InfoIds : OSSL_STORE_INFO_get0_PARAMS(i)
Get1Params == \E i \in InfoIds : OSSL_STORE_INFO_get1_PARAMS(i)
Get0Pkey == \E i \in InfoIds : OSSL_STORE_INFO_get0_PKEY(i)
Get1Pkey == \E i \in InfoIds : OSSL_STORE_INFO_get1_PKEY(i)
Get0Cert == \E i \in InfoIds : OSSL_STORE_INFO_get0_CERT(i)
Get1Cert == \E i \in InfoIds : OSSL_STORE_INFO_get1_CERT(i)
Get0Crl == \E i \in InfoIds : OSSL_STORE_INFO_get0_CRL(i)
Get1Crl == \E i \in InfoIds : OSSL_STORE_INFO_get1_CRL(i)
Get0Buffer == \E i \in InfoIds : ossl_store_info_get0_EMBEDDED_buffer(i)
Get0PemName == \E i \in InfoIds : ossl_store_info_get0_EMBEDDED_pem_name(i)
InfoFree == \E i \in InfoIds \cup {NULL} : OSSL_STORE_INFO_free(i)

NextInfo ==
    \/ NewName \/ NewParams \/ NewPkey \/ NewCert \/ NewCrl \/ NewEmbedded
    \/ SetDescription \/ GetType
    \/ Get0Name \/ Get1Name \/ Get0Description \/ Get1Description
    \/ Get0Params \/ Get1Params \/ Get0Pkey \/ Get1Pkey
    \/ Get0Cert \/ Get1Cert \/ Get0Crl \/ Get1Crl
    \/ Get0Buffer \/ Get0PemName \/ InfoFree

SpecInfo == InitInfo /\ [][NextInfo]_vars
-----------------------------------------------------------------------------
(* Properties of the store context API *)

\* What a caller sees of a loader's outputs through the callback f: a
\* sentinel comes through as the sentinel, an object as the callback's output
\* for it, an object the callback discards not at all
RECURSIVE Emit(_, _)
Emit(f, produced) ==
    IF produced = <<>> THEN <<>>
    ELSE LET x == Head(produced)
             rest == Emit(f, Tail(produced))
         IN  IF x \in Sentinels THEN <<NoInfo>> \o rest
             ELSE IF f = "NULL" THEN <<x>> \o rest
             ELSE IF post_process(f, x) = NoInfo THEN rest
             ELSE <<post_process(f, x)>> \o rest

SessionOf(c) == sessions[ctxs[c].loader_ctx]

\* C1: the results of the successive OSSL_STORE_load calls on a context are
\* the callback's outputs for the loader's objects, in the loader's order,
\* without the objects the callback discarded; once the loader is exhausted
\* OSSL_STORE_load returns NULL and OSSL_STORE_eof returns true.
C1_LoadYieldsFilteredSequence ==
    \A c \in CtxIds : ctxs[c].alive =>
        /\ returned[c] = Emit(ctxs[c].post_process, SessionOf(c).produced)
        /\ (SessionOf(c).eof /\ call.op = "load" /\ call.ctx = c)
               => call.v = NoInfo
        /\ (SessionOf(c).eof /\ call.op = "eof" /\ call.ctx = c)
               => call.ret = 1

\* The spec's example: the loader yields Name, Certificate, Name, Certificate,
\* the callback rejects every Name, the caller has seen Certificate,
\* Certificate, NULL and then asked OSSL_STORE_eof
C1_Witness ==
    \E c \in CtxIds :
        /\ ctxs[c].alive
        /\ ctxs[c].post_process = "reject_name"
        /\ SessionOf(c).produced = <<"Name", "Cert", "Name", "Cert", "EOF">>
        /\ returned[c] = <<"Cert", "Cert", NoInfo>>
        /\ call.op = "eof" /\ call.ctx = c /\ call.ret = 1

OpenSessions == {s \in SessIds : sessions[s].state = "open"}
LiveCtxs == {c \in CtxIds : ctxs[c].alive}

\* C2: when OSSL_STORE_open fails after loader->open returned a session,
\* loader->close was called on that session exactly once, no context is
\* returned, and this is so whatever loader->close returned.
C2_OpenFailureClosesSession ==
    (call.op = "open" /\ call.session # NULL /\ ~call.alloc_ok) =>
        /\ call.closes = 1
        /\ call.ret = NULL
        /\ sessions[call.session].state = "free"
        /\ \A c \in LiveCtxs : ctxs[c].loader_ctx # call.session

\* The allocation of the context failed and loader->close reported failure
C2_Witness ==
    /\ call.op = "open" /\ call.session # NULL /\ ~call.alloc_ok
    /\ call.closes = 1 /\ call.loader_ret = 0 /\ call.ret = NULL

\* The scheme of a URI as the spec defines it: the text before the first
\* ':', and "file" when there is no ':'
SpecScheme(text) ==
    LET p == strchr(text, ":")
    IN  IF p # NULL THEN SubSeq(text, 1, p - 1) ELSE Str_file
SpecSchemeTable == [u \in URIs |-> SpecScheme(UriText(u))]
Registered(scheme) == ossl_store_get0_loader_int(scheme) # NoLoader

\* C3: OSSL_STORE_open on a URI whose scheme is not registered returns no
\* context, calls no loader's open or close and leaves no session allocated;
\* when a registered loader's open yields no session, OSSL_STORE_open returns
\* no context and calls no close.
C3_UnknownSchemeOpensNothing ==
    /\ (call.op = "open" /\ ~Registered(SpecSchemeTable[call.uri])) =>
           /\ call.ret = NULL
           /\ call.opens = 0 /\ call.closes = 0
           /\ call.session = NULL
    /\ (call.op = "open" /\ call.opens = 1 /\ call.session = NULL) =>
           call.ret = NULL /\ call.closes = 0

\* C4: OSSL_STORE_close calls loader->close once and frees the context once,
\* whatever loader->close returns, and returns what loader->close returned.
C4_CloseAlwaysReleases ==
    call.op = "close" =>
        /\ call.closes = 1
        /\ call.ctx_frees = 1
        /\ ~ctxs[call.ctx].alive
        /\ sessions[call.session].state = "free"
        /\ call.ret = call.loader_ret
        /\ Cardinality(OpenSessions) = Cardinality(LiveCtxs)

\* loader->close reported failure
C4_Witness ==
    /\ call.op = "close" /\ call.loader_ret = 0 /\ call.ret = 0
    /\ call.ctx_frees = 1

\* C6: the scheme OSSL_STORE_open looks up is the text of the URI before its
\* first ':', "file" only when the URI holds no ':'; a URI is never
\* dispatched to the loader of a scheme other than its own.
C6_SchemeIsTextBeforeColon ==
    call.op = "open" =>
        /\ call.loader = ossl_store_get0_loader_int(SpecSchemeTable[call.uri])
        /\ (call.opens = 1) => Registered(SpecSchemeTable[call.uri])

\* A URI that is a path without ':', or "file:" followed by such a path
IsFilePath(text) ==
    \/ strchr(text, ":") = NULL
    \/ /\ Len(text) > Len(Str_file)
       /\ SubSeq(text, 1, Len(Str_file) + 1) = Str_file \o <<":">>
       /\ strchr(SubSeq(text, Len(Str_file) + 2, Len(text)), ":") = NULL
FilePathTable == [u \in URIs |-> IsFilePath(UriText(u))]

\* C7: for a path P without ':', OSSL_STORE_open of P and of "file:" P both
\* look up the loader registered under "file", call its open with the whole
\* URI as the caller gave it, and bind that loader in the context.
C7_FilePrefixAndBarePathSameLoader ==
    (call.op = "open" /\ FilePathTable[call.uri]) =>
        /\ call.loader = ossl_store_get0_loader_int(Str_file)
        /\ call.opens = 1
        /\ call.open_arg = UriText(call.uri)
        /\ call.ret # NULL => ctxs[call.ret].loader = call.loader

\* A bare path longer than the scheme buffer was opened and bound
C7_Witness ==
    /\ call.op = "open" /\ call.uri = "p256" /\ call.ret # NULL
    /\ ctxs[call.ret].loader = "file_loader"

\* what an OSSL_STORE_ctrl step leaves alone when the loader has no ctrl
CtrlUnsupportedStep ==
    (call'.op = "ctrl" /\ ~HasCtrl(call'.loader)) =>
        sessions' = sessions /\ ctxs' = ctxs

\* C12: OSSL_STORE_ctrl on a context whose loader has a ctrl calls it once on
\* the context's session with the command, and returns what it returned; on
\* a context whose loader has none it returns 0, calls no loader function
\* and leaves the session as it was.
C12_CtrlForwardsOrFails ==
    /\ [](call.op = "ctrl" =>
            /\ call.session = ctxs[call.ctx].loader_ctx
            /\ HasCtrl(call.loader) =>
                   /\ call.ctrls = 1
                   /\ call.ctrl_cmd = call.cmd
                   /\ call.ret = call.loader_ret
            /\ ~HasCtrl(call.loader) =>
                   /\ call.ctrls = 0 /\ call.ret = 0
                   /\ call.opens = 0 /\ call.closes = 0 /\ call.loads = 0
                   /\ call.detaches = 0)
    /\ [][CtrlUnsupportedStep]_vars

\* loader->ctrl returned a status other than 0 and 1, handed on as it is
C12_Witness ==
    /\ call.op = "ctrl" /\ HasCtrl(call.loader) /\ call.ctrls = 1
    /\ call.cmd = 2 /\ call.loader_ret = 2 /\ call.ret = 2

\* C13: ossl_store_detach_pem_bio calls the file backend's detach on the
\* session and not the loader's close, frees the context once whatever the
\* detach returned, returns what it returned, and leaves the BIO open in the
\* caller's hands.
C13_DetachReleasesOnlyBinding ==
    call.op = "detach" =>
        /\ call.detaches = 1 /\ call.closes = 0
        /\ call.ctx_frees = 1
        /\ ~ctxs[call.ctx].alive
        /\ sessions[call.session].state = "free"
        /\ call.ret = call.loader_ret
        /\ call.bio_frees = 0
        /\ bio = "open"

\* the detach reported failure
C13_Witness ==
    /\ call.op = "detach" /\ call.loader_ret = 0 /\ call.ret = 0
    /\ call.ctx_frees = 1 /\ call.bio_frees = 0 /\ bio = "open"

\* the pass OSSL_STORE_load just made fetched an object that the callback
\* discarded
PassDiscarded ==
    /\ call.op = "load_again"
    /\ call.out \in Kinds
    /\ ctxs[call.ctx].post_process # "NULL"
    /\ post_process(ctxs[call.ctx].post_process, call.out) = NoInfo

\* C17: a call of OSSL_STORE_load on a loader whose sequence ends returns,
\* whatever the callback; a call goes on past a pass only when that pass
\* fetched an object and the callback discarded it.
C17_LoadTerminates ==
    /\ [](loading # NULL => (call.ctx = loading /\ PassDiscarded))
    /\ \A c \in CtxIds :
           (loading = c /\ ~Endless(ctxs[c].loader)) ~> (loading = NULL)

\* a call under a callback that discards everything returned with the
\* sentinel after discarding three objects
C17_Witness ==
    /\ call.op = "load" /\ loading = NULL
    /\ ctxs[call.ctx].post_process = "reject_all"
    /\ ~Endless(call.loader)
    /\ call.loads = 4 /\ call.filters = 3 /\ call.v = NoInfo

\* a call on the loader without end, every object discarded, has made more
\* passes than any sequence that ends is long
C17_WitnessEndless ==
    /\ loading # NULL /\ Endless(call.loader)
    /\ call.loads = MaxLoads + 1

IsObject(x) == x \in Kinds

Has(seq, x) == \E i \in 1..Len(seq) : seq[i] = x

\* C18: when loader->load returns NULL, at the end of the sequence or on an
\* error, OSSL_STORE_load returns NULL in that pass: the callback is not
\* called on it and the loader is not called again. A call makes a further
\* pass only after a discard, and the callback has been called once for
\* each object fetched. OSSL_STORE_eof and OSSL_STORE_error return what the
\* loader's eof and error report, however many objects were discarded.
C18_SentinelReturnsAtOnce ==
    /\ call.op \in {"load", "load_again"} =>
           LET pp == ctxs[call.ctx].post_process
           IN  /\ call.out \in Sentinels =>
                      /\ call.op = "load" /\ loading = NULL
                      /\ call.v = NoInfo
                      /\ call.filters = call.loads - 1
               /\ call.out \in Kinds =>
                      call.filters = IF pp = "NULL" THEN 0 ELSE call.loads
               /\ call.op = "load_again" => PassDiscarded
               /\ pp = "NULL" => call.loads = 1
    /\ call.op = "eof" =>
           call.ret = Bool2Int(Has(sessions[call.session].produced, "EOF"))
    /\ call.op = "error" =>
           call.ret = Bool2Int(Has(sessions[call.session].produced, "ERR"))

\* the loader reported an error after two objects that the callback
\* discarded: the call returned NULL on its third pass, the callback called
\* twice
C18_Witness ==
    /\ call.op = "load" /\ call.out = "ERR"
    /\ call.loads = 3 /\ call.filters = 2 /\ call.v = NoInfo
    /\ sessions[call.session].error

\* the objects among what the loader produced
Objects(produced) == SelectSeq(produced, IsObject)

\* C20: OSSL_STORE_load hands every object the loader produced on, and
\* destroys none: without a callback each is returned to the caller as it
\* is, with a callback each is handed to the callback exactly once, in
\* order. A context made by ossl_store_attach_pem_bio has no callback.
C20_LoadHandsEveryObjectOn ==
    \A c \in CtxIds : ctxs[c].alive =>
        /\ ctxs[c].post_process = "NULL" =>
               /\ filtered[c] = <<>>
               /\ returned[c] = [i \in 1..Len(SessionOf(c).produced) |->
                                    LoadValue(SessionOf(c).produced[i])]
        /\ ctxs[c].post_process # "NULL" =>
               filtered[c] = Objects(SessionOf(c).produced)
        /\ SessionOf(c).bio => ctxs[c].post_process = "NULL"

\* a context attached to a BIO has loaded a Name and a Certificate
C20_Witness ==
    \E c \in CtxIds :
        /\ ctxs[c].alive /\ SessionOf(c).bio
        /\ SessionOf(c).produced = <<"Name", "Cert">>
        /\ returned[c] = <<"Name", "Cert">>
        /\ filtered[c] = <<>>

\* the sessions and the contexts are paired one to one
Balanced ==
    /\ Cardinality(OpenSessions) = Cardinality(LiveCtxs)
    /\ \A c \in LiveCtxs : ctxs[c].loader_ctx \in OpenSessions
    /\ \A c, d \in LiveCtxs :
           c # d => ctxs[c].loader_ctx # ctxs[d].loader_ctx
    /\ \A s \in OpenSessions : \E c \in LiveCtxs : ctxs[c].loader_ctx = s

\* a session obtained by a call is bound to the context returned, or torn
\* down by that call
ObtainedIsBoundOrClosed ==
    (call.op \in {"open", "attach"} /\ call.session # NULL) =>
        \/ /\ call.ret # NULL /\ call.closes = 0
           /\ ctxs[call.ret].alive
           /\ ctxs[call.ret].loader_ctx = call.session
           /\ sessions[call.session].state = "open"
        \/ /\ call.ret = NULL /\ call.closes = 1
           /\ sessions[call.session].state = "free"

\* a step tears a session down at most once, and only a session that was
\* alive or that the same call obtained; a session that goes away was torn
\* down by the call, together with its context
TeardownStep ==
    /\ call'.closes + call'.detaches > 0 =>
           /\ call'.closes + call'.detaches = 1
           /\ \/ sessions[call'.session].state = "open"
              \/ call'.op \in {"open", "attach"}
    /\ \A s \in SessIds :
           (sessions[s].state = "open" /\ sessions'[s].state = "free") =>
               /\ call'.session = s
               /\ call'.closes + call'.detaches = 1
               /\ call'.ctx # NULL /\ ctxs[call'.ctx].alive
               /\ ~ctxs'[call'.ctx].alive

\* C19: over any sequence of open, attach, load, ctrl, eof, error, close and
\* detach calls, failed ones included, every session a loader handed out is
\* bound to exactly one live context or has been torn down, once; the live
\* sessions are as many as the live contexts.
C19_SessionBalance ==
    /\ [](loading = NULL => (Balanced /\ ObtainedIsBoundOrClosed))
    /\ [](loading # NULL => Balanced)
    /\ [][TeardownStep]_vars

\* with two contexts open, a third OSSL_STORE_open obtained a session and
\* failed to allocate its context
C19_Witness ==
    /\ Cardinality(LiveCtxs) = 2 /\ Cardinality(OpenSessions) = 2
    /\ call.op = "open" /\ call.session # NULL /\ call.ret = NULL
    /\ call.closes = 1
    /\ sessions[call.session].state = "free"
-----------------------------------------------------------------------------
(* Properties of OSSL_STORE_INFO *)

\* C5: a constructor that fails has not freed or otherwise consumed the
\* payload the caller handed it: the cell is as it was and still the caller's.
C5_FailedConstructorKeepsPayload ==
    (icall.op = "new" /\ icall.ret = NULL /\ icall.arg # NULL) =>
        /\ heap[icall.arg].frees = 0
        /\ heap[icall.arg].refs = icall.refs0[icall.arg]
        /\ ~heap[icall.arg].given

\* C8: once the OSSL_STORE_INFO is destroyed, every string that was attached
\* to it as a description has been freed exactly once.
C8_DescriptionsFreedWithObject ==
    /\ \A p \in Ptrs : heap[p].attached => heap[p].frees <= 1
    /\ (\A i \in InfoIds : ~infos[i].alive) =>
           \A p \in Ptrs : heap[p].attached => heap[p].frees = 1

MismatchReasons ==
    {"NOT_A_NAME", "NOT_PARAMETERS", "NOT_A_KEY", "NOT_A_CERTIFICATE",
     "NOT_A_CRL"}

Borrowing == {"get0", "get0_description"}
Duplicating == {"get1", "get1_description"}
CheckedTypes == HandleTypes \cup {"NAME"}

\* C9: an accessor of a variant other than the object's tag returns NULL;
\* the borrowing one raises no error, the duplicating one raises the
\* mismatch error of its variant; no reference count changes and nothing is
\* allocated.
C9_MismatchedAccessors ==
    (icall.type \in CheckedTypes /\ icall.tag # icall.type) =>
        /\ icall.op \in Borrowing =>
               /\ icall.ret = NULL
               /\ icall.errs = <<>>
               /\ RefsOf(heap) = icall.refs0
        /\ icall.op \in Duplicating =>
               /\ icall.ret = NULL
               /\ Len(icall.errs) = 1
               /\ icall.errs[1] \in MismatchReasons
               /\ icall.errs[1] = "NOT_A_NAME" <=> icall.type = "NAME"
               /\ RefsOf(heap) = icall.refs0

\* The spec's example on a Name object holding a name: get1_CERT raised
\* NOT_A_CERTIFICATE
C9_Witness ==
    /\ icall.op = "get1" /\ icall.type = "CERT" /\ icall.tag = "NAME"
    /\ infos[icall.info].m0 # NULL
    /\ icall.errs = <<"NOT_A_CERTIFICATE">> /\ icall.ret = NULL

\* C10: on an object of the matching tag holding a handle, get1 returns that
\* handle and has raised its reference count by exactly 1, get0 returns that
\* handle and leaves every reference count as it was.
C10_MatchingAccessors ==
    (icall.type \in HandleTypes /\ icall.tag = icall.type
     /\ icall.op \in {"get0", "get1"} /\ infos[icall.info].m0 # NULL) =>
        /\ icall.ret = infos[icall.info].m0
        /\ icall.errs = <<>>
        /\ icall.op = "get1" =>
               RefsOf(heap) = [icall.refs0 EXCEPT ![icall.ret] = @ + 1]
        /\ icall.op = "get0" => RefsOf(heap) = icall.refs0

\* get1_CERT on a Certificate object whose handle already had two references
C10_Witness ==
    /\ icall.op = "get1" /\ icall.type = "CERT" /\ icall.tag = "CERT"
    /\ icall.ret # NULL
    /\ icall.refs0[icall.ret] = 2 /\ heap[icall.ret].refs = 3

\* the calls that neither construct nor destroy an object
AccessorOps ==
    {"get_type", "get0", "get1", "get0_description", "get1_description",
     "get0_pem_name"}

\* what a step does to the tag of an object
TagStep ==
    /\ \A i \in InfoIds :
           (infos[i].alive /\ infos'[i].alive) =>
               infos'[i].type = infos[i].type
    /\ icall'.op \in AccessorOps => infos' = infos
    /\ (icall'.op = "set0_NAME_description" /\ icall'.tag # "NAME") =>
           infos' = infos /\ heap' = heap

\* C14: the tag of an OSSL_STORE_INFO stays what the constructor made it: no
\* accessor and no set0_NAME_description changes it, and
\* set0_NAME_description on an object that is not a NAME returns 0, raises
\* an error and leaves the object and the description passed as they were.
C14_TagIsImmutable ==
    /\ []((icall.op = "set0_NAME_description" /\ icall.tag # "NAME") =>
            /\ icall.ret = 0
            /\ icall.errs = <<"PASSED_INVALID_ARGUMENT">>
            /\ infos[icall.info].type = icall.tag
            /\ RefsOf(heap) = icall.refs0 /\ FreesOf(heap) = icall.frees0
            /\ icall.arg # NULL => ~heap[icall.arg].given)
    /\ [][TagStep]_vars

\* a description was passed for a Certificate object and refused
C14_Witness ==
    /\ icall.op = "set0_NAME_description" /\ icall.tag = "CERT"
    /\ icall.arg # NULL /\ icall.ret = 0
    /\ infos[icall.info].type = "CERT" /\ infos[icall.info].m1 = NULL

\* p is a string allocated by the call, apart from the object's own strings,
\* and holds val
IsCopy(p, val) ==
    /\ p # NULL
    /\ p \notin {infos[icall.info].m0, infos[icall.info].m1}
    /\ icall.refs0[p] = 0 /\ icall.frees0[p] = 0
    /\ heap[p].ctype = "str" /\ heap[p].refs = 1
    /\ heap[p].val = val
    /\ icall.errs = <<>>

NeverDescribed == \A p \in Ptrs : ~heap[p].attached

\* C15: on a NAME object, set0_NAME_description attaches the string passed;
\* get0_NAME_description returns the attached string, NULL when there is
\* none; get1_NAME_description returns a fresh copy of it, a fresh empty
\* string when there is none; get1_NAME returns a fresh copy of the name.
C15_NameAccessorsCopy ==
    (icall.tag = "NAME" /\ icall.type = "NAME") =>
        LET info == infos[icall.info]
        IN  /\ icall.op = "set0_NAME_description" =>
                   icall.ret = 1 /\ info.m1 = icall.arg
            /\ icall.op = "get0_description" =>
                   /\ icall.ret = info.m1
                   /\ NeverDescribed => icall.ret = NULL
                   /\ RefsOf(heap) = icall.refs0
            /\ (icall.op = "get1_description" /\ icall.alloc_ok) =>
                   /\ info.m1 # NULL => IsCopy(icall.ret, heap[info.m1].val)
                   /\ info.m1 = NULL => IsCopy(icall.ret, "")
                   /\ NeverDescribed => info.m1 = NULL
            /\ (icall.op = "get1" /\ icall.alloc_ok /\ info.m0 # NULL) =>
                   IsCopy(icall.ret, heap[info.m0].val)

\* get1_NAME_description on a NAME object described as "d" returned a copy
C15_Witness ==
    /\ icall.op = "get1_description" /\ icall.tag = "NAME"
    /\ infos[icall.info].m1 # NULL
    /\ heap[infos[icall.info].m1].val = "d"
    /\ icall.ret # NULL /\ icall.ret # infos[icall.info].m1
    /\ heap[icall.ret].val = "d"

\* C16: OSSL_STORE_INFO_new_CERT(NULL) succeeds when its allocation does
\* and yields a CERT object whose handle is NULL; get0_CERT on it returns
\* NULL, raising nothing and faulting nowhere; OSSL_STORE_INFO_free on it
\* touches no payload and faults nowhere.
C16_NullCertificateIsAccepted ==
    /\ (icall.op = "new" /\ icall.type = "CERT" /\ icall.arg = NULL
        /\ icall.alloc_ok) =>
           /\ icall.ret # NULL
           /\ infos[icall.ret].alive
           /\ infos[icall.ret].type = "CERT" /\ infos[icall.ret].m0 = NULL
           /\ icall.errs = <<>> /\ icall.fault = "none"
    /\ (icall.op = "get0" /\ icall.type = "CERT" /\ icall.tag = "CERT"
        /\ infos[icall.info].m0 = NULL) =>
           /\ icall.ret = NULL
           /\ icall.errs = <<>> /\ icall.fault = "none"
    /\ (icall.op = "free" /\ icall.tag = "CERT" /\ icall.m0 = NULL) =>
           /\ ~infos[icall.info].alive
           /\ RefsOf(heap) = icall.refs0 /\ FreesOf(heap) = icall.frees0
           /\ icall.fault = "none"

\* a CERT object built on NULL was asked for its certificate
C16_Witness ==
    /\ icall.op = "get0" /\ icall.type = "CERT" /\ icall.tag = "CERT"
    /\ infos[icall.info].alive /\ infos[icall.info].m0 = NULL
    /\ icall.ret = NULL /\ icall.fault = "none"

\* the cells other than those in S are as they were before the call
OthersUntouched(S) ==
    \A p \in Ptrs \ S :
        heap[p].refs = icall.refs0[p] /\ heap[p].frees = icall.frees0[p]

\* C11: OSSL_STORE_INFO_free releases the payload once, by tag: a handle
\* loses exactly one reference and is freed only with its last one, the
\* strings and the buffer are freed; so a handle that get1 handed out k
\* times is left with k references, and alive when k > 0.
C11_FreeReleasesPayloadByTag ==
    (icall.op = "free" /\ icall.info # NULL) =>
        /\ ~infos[icall.info].alive
        /\ (icall.tag \in HandleTypes /\ icall.m0 # NULL) =>
               /\ heap[icall.m0].refs = icall.refs0[icall.m0] - 1
               /\ heap[icall.m0].frees =
                      icall.frees0[icall.m0]
                      + (IF icall.refs0[icall.m0] = 1 THEN 1 ELSE 0)
               /\ heap[icall.m0].refs = heap[icall.m0].got
               /\ heap[icall.m0].got > 0 => heap[icall.m0].frees = 0
               /\ OthersUntouched({icall.m0})
        /\ icall.tag \in {"NAME", "EMBEDDED"} =>
               /\ \A p \in {icall.m0, icall.m1} \ {NULL} :
                      /\ heap[p].refs = 0
                      /\ heap[p].frees = icall.frees0[p] + 1
               /\ OthersUntouched({icall.m0, icall.m1})

\* A Certificate object was destroyed after get1_CERT handed its handle out
\* twice: the handle lives on with two references
C11_Witness ==
    /\ icall.op = "free" /\ icall.tag = "CERT" /\ icall.m0 # NULL
    /\ heap[icall.m0].got = 2 /\ heap[icall.m0].refs = 2
    /\ heap[icall.m0].frees = 0
====
